---- MODULE Spec2Model ----
(***************************************************************************)
(* Installation-event pipeline of unity-cli-tools:                         *)
(*   UnityHubEventParser.parseUnityHubEvent  (src/src/events/hubEventParser.ts)  *)
(*   UnityHubInstallerEvent                  (src/src/events/hubEventEmitter.ts) *)
(*                                                                         *)
(* Text is a sequence of tokens.  A token is one character of the          *)
(* protocol ("[", "]", " ", ".", "%", a digit, "CR" for \r, "NL" for \n)   *)
(* or an atomic run of ordinary characters (a word such as "Android",      *)
(* "Installed", or the literal "Error:").                                  *)
(***************************************************************************)
EXTENDS Integers, Sequences, FiniteSets, TLC

----------------------------------------------------------------------------
(* Bounds of the model *)

MaxCalls == 3

MaxFutures == 2

MaxCallerListeners == 1
\* lines of a text handed to the parser on its own
MaxLines == 2
\* results in an array handed to combine
MaxResults == 3
\* arguments of a command line handed to redactSensitiveArgs
MaxArgs == 3

----------------------------------------------------------------------------
(* Enumerations of types/unity.ts, as the specification names them *)

InstallerStatus_Downloading == <<"Downloading">>

InstallerStatus_Installed == <<"Installed">>

InstallerStatus_Error == <<"Error">>

\* the members of InstallerStatus
InstallerStatusValues ==
  {<<"Queued">>, <<"Validating">>, <<"InProgress">>, InstallerStatus_Downloading,
   <<"QueuedInstall">>, <<"ValidatingInstall">>, <<"Installing">>, <<"Verifying">>,
   InstallerStatus_Installed, InstallerStatus_Error}

InstallerEventType_Progress == "Progress"

InstallerEventType_Error == "Error"

InstallerEventType_Completed == "Completed"

InstallerEventType_Cancelled == "Cancelled"

EventTypes ==
  {InstallerEventType_Progress, InstallerEventType_Error,
   InstallerEventType_Completed, InstallerEventType_Cancelled}

----------------------------------------------------------------------------
(* Character classes of the regular expressions *)

Digits == {"0", "1", "2", "3", "4", "5", "6", "7", "8", "9"}

DigitVal(t) ==
  CASE t = "0" -> 0 [] t = "1" -> 1 [] t = "2" -> 2 [] t = "3" -> 3
    [] t = "4" -> 4 [] t = "5" -> 5 [] t = "6" -> 6 [] t = "7" -> 7
    [] t = "8" -> 8 [] t = "9" -> 9

\* \s : white space, which includes the carriage return
IsSpace(t) == t \in {" ", "CR", "NL"}

\* . : any character but a line terminator
IsAnyChar(t) == t \notin {"CR", "NL"}

\* String.prototype.trim
RECURSIVE TrimLeft(_)
TrimLeft(s) ==
  IF s # <<>> /\ IsSpace(Head(s)) THEN TrimLeft(Tail(s)) ELSE s

RECURSIVE TrimRight(_)
TrimRight(s) ==
  IF s # <<>> /\ IsSpace(s[Len(s)]) THEN TrimRight(SubSeq(s, 1, Len(s) - 1)) ELSE s

Trim(s) == TrimRight(TrimLeft(s))

\* event.split("\n")
RECURSIVE SplitLines(_, _)
SplitLines(text, cur) ==
  IF text = <<>> THEN <<cur>>
  ELSE IF Head(text) = "NL" THEN <<cur>> \o SplitLines(Tail(text), <<>>)
  ELSE SplitLines(Tail(text), Append(cur, Head(text)))

\* status.replace(/\.\.\.$/, "")
StripEllipsis(s) ==
  IF Len(s) >= 3 /\ s[Len(s)] = "." /\ s[Len(s) - 1] = "." /\ s[Len(s) - 2] = "."
  THEN SubSeq(s, 1, Len(s) - 3)
  ELSE s

\* number of leading tokens of s that satisfy the class
RECURSIVE SpaceRun(_)
SpaceRun(s) == IF s # <<>> /\ IsSpace(Head(s)) THEN 1 + SpaceRun(Tail(s)) ELSE 0

RECURSIVE DigitRun(_)
DigitRun(s) == IF s # <<>> /\ Head(s) \in Digits THEN 1 + DigitRun(Tail(s)) ELSE 0

AllDots(s) == \A i \in 1..Len(s) : s[i] = "."

Drop(s, n) == SubSeq(s, n + 1, Len(s))

\* value of a run of decimal digits
RECURSIVE DecimalValue(_)
DecimalValue(ds) ==
  IF ds = <<>> THEN 0
  ELSE 10 * DecimalValue(SubSeq(ds, 1, Len(ds) - 1)) + DigitVal(ds[Len(ds)])

RECURSIVE StripTrailingZeros(_)
StripTrailingZeros(ds) ==
  IF ds # <<>> /\ ds[Len(ds)] = "0" THEN StripTrailingZeros(SubSeq(ds, 1, Len(ds) - 1)) ELSE ds

\* a parseFloat that stops at the decimal point
ParseFloatWhole(whole, frac) == <<DecimalValue(whole)>>

\* parseFloat of the progress capture: <<whole, fraction digits...>>
ParseFloat(whole, frac) ==
  LET f == StripTrailingZeros(frac)
  IN  <<DecimalValue(whole)>> \o [i \in 1..Len(f) |-> DigitVal(f[i])]

\* the absent progress of a status line (null)
Null == <<>>

----------------------------------------------------------------------------
(* UnityHubEventParser *)

\* (?:\s+(?<progress>\d+(?:\.\d+)?))% followed by \.*$
ProgressGroup(rest) ==
  LET ws == SpaceRun(rest)
      a == Drop(rest, ws)
      nd == DigitRun(a)
      b == Drop(a, nd)
      hasFrac == Len(b) >= 2 /\ b[1] = "." /\ b[2] \in Digits
      nf == IF hasFrac THEN DigitRun(Drop(b, 1)) ELSE 0
      c == IF hasFrac THEN Drop(b, 1 + nf) ELSE b
  IN  [ok |-> ws >= 1 /\ nd >= 1 /\ c # <<>> /\ c[1] = "%" /\ AllDots(Drop(c, 1)),
       whole |-> SubSeq(a, 1, nd),
       frac |-> IF hasFrac THEN SubSeq(b, 2, 1 + nf) ELSE <<>>]

\* what may follow the status capture: the optional progress group, dots, end
RestMatches(rest) == ProgressGroup(rest).ok \/ AllDots(rest)

\* index of the first "]" of the line, 0 when there is none
RECURSIVE FirstClose(_, _)
FirstClose(line, i) ==
  IF i > Len(line) THEN 0
  ELSE IF line[i] = "]" THEN i
  ELSE FirstClose(line, i + 1)

\* the ways /^\[(?<module>[^\]]+)\]\s+(?<status>.+?)(...%)?\.*$/ matches:
\* <<s, e>> = length of the \s+ run and last index of the status capture
StatusMatches(line) ==
  LET k == FirstClose(line, 1)
  IN  IF Len(line) = 0 \/ line[1] # "[" \/ k < 3 THEN {}
      ELSE {se \in (1..SpaceRun(Drop(line, k))) \X (1..Len(line)) :
              /\ se[2] >= k + se[1] + 1
              /\ \A i \in (k + se[1] + 1)..se[2] : IsAnyChar(line[i])
              /\ RestMatches(Drop(line, se[2]))}

\* StatusMatch with a greedy status capture (.+ instead of .+?)
StatusMatchGreedy(line) ==
  LET ms == StatusMatches(line)
      s == CHOOSE x \in {m[1] : m \in ms} : \A m \in ms : m[1] <= x
      e == CHOOSE y \in {m[2] : m \in {n \in ms : n[1] = s}} :
             \A m \in {n \in ms : n[1] = s} : y >= m[2]
  IN  <<s, e>>

\* the match the engine reports: \s+ is greedy, the status capture is lazy
StatusMatch(line) ==
  LET ms == StatusMatches(line)
      s == CHOOSE x \in {m[1] : m \in ms} : \A m \in ms : m[1] <= x
      e == CHOOSE y \in {m[2] : m \in {n \in ms : n[1] = s}} :
             \A m \in {n \in ms : n[1] = s} : y <= m[2]
  IN  <<s, e>>

\* the event pushed for a line that matches the status pattern (lines 20-30)
StatusEvent(line) ==
  LET k == FirstClose(line, 1)
      m == StatusMatch(line)
      module == SubSeq(line, 2, k - 1)
      status == SubSeq(line, k + m[1] + 1, m[2])
      g == ProgressGroup(Drop(line, m[2]))
  IN  [module |-> Trim(module),
       status |-> Trim(StripEllipsis(status)),
       progress |-> IF g.ok THEN ParseFloat(g.whole, g.frac)
                    ELSE IF status # InstallerStatus_Downloading THEN Null
                    ELSE <<0>>]

\* /Error:.*/.test(line)
ErrorPatternMatches(line) == \E i \in 1..Len(line) : line[i] = "Error:"

\* checkForErrors that keeps the line as it is
checkForErrorsUntrimmed(line) ==
  [module |-> <<"UnityHub">>, status |-> InstallerStatus_Error, error |-> line]

checkForErrors(line) ==
  [module |-> <<"UnityHub">>, status |-> InstallerStatus_Error, error |-> Trim(line)]

RECURSIVE ErrorPass(_)
ErrorPass(lines) ==
  IF lines = <<>> THEN <<>>
  ELSE (IF ErrorPatternMatches(Head(lines)) THEN <<checkForErrors(Head(lines))>> ELSE <<>>)
       \o ErrorPass(Tail(lines))

RECURSIVE StatusPass(_)
StatusPass(lines) ==
  IF lines = <<>> THEN <<>>
  ELSE (IF StatusMatches(Head(lines)) # {} THEN <<StatusEvent(Head(lines))>> ELSE <<>>)
       \o StatusPass(Tail(lines))

\* a parser whose status-line loop runs before its error loop
parseStatusLinesFirst(event) ==
  LET lines == SplitLines(event, <<>>)
  IN  StatusPass(lines) \o ErrorPass(lines)

\* a parser whose status-line loop skips the lines of the error loop
parseErrorLinesOnce(event) ==
  LET lines == SplitLines(event, <<>>)
  IN  ErrorPass(lines) \o StatusPass(SelectSeq(lines, LAMBDA l : ~ErrorPatternMatches(l)))

parseUnityHubEvent(event) ==
  LET lines == SplitLines(event, <<>>)
  IN  ErrorPass(lines) \o StatusPass(lines)

----------------------------------------------------------------------------
(* Chunks of hub output handed to Progress(raw) *)

LineDownloading10 == <<"[", "Android", "]", " ", "Downloading", " ", "1", "0", "%">>

LineDownloading90 == <<"[", "Android", "]", " ", "Downloading", " ", "9", "0", "%">>

LineInstalled100 == <<"[", "Android", "]", " ", "Installed", " ", "1", "0", "0", "%">>

LineIosInstalled == <<"[", "iOS", "]", " ", "Installed">>

LineWebGLInstalled == <<"[", "WebGL", "]", " ", "Installed">>

LineWebGLDownloading50 == <<"[", "WebGL", "]", " ", "Downloading", " ", "5", "0", "%">>

LineError == <<"Error:", " ", "disk", " ", "full">>

LineNoise == <<"Checking", " ", "for", " ", "updates">>

ChunkErrorAndInstalled == LineError \o <<"NL">> \o LineInstalled100

ChunkThreeModules ==
  LineIosInstalled \o <<"NL">> \o LineWebGLDownloading50 \o <<"NL">> \o
  <<"[", "Android", "]", " ", "Installed">>

ChunkTwoInstalled == LineIosInstalled \o <<"NL">> \o LineWebGLInstalled \o <<"NL">>

Chunks ==
  {LineDownloading10 \o <<"NL">>, LineDownloading90 \o <<"NL">>,
   LineInstalled100 \o <<"NL">>, ChunkErrorAndInstalled, ChunkThreeModules,
   ChunkTwoInstalled, LineError, LineNoise}

\* data.toString().split(/\r?\n/): the lines of one stdout buffer
RECURSIVE SplitCRLF(_, _)
SplitCRLF(text, cur) ==
  IF text = <<>> THEN <<cur>>
  ELSE IF Head(text) = "NL" THEN <<cur>> \o SplitCRLF(Tail(text), <<>>)
  ELSE IF Head(text) = "CR" /\ Len(text) >= 2 /\ text[2] = "NL"
         THEN <<cur>> \o SplitCRLF(Tail(Tail(text)), <<>>)
  ELSE SplitCRLF(Tail(text), Append(cur, Head(text)))

\* if (line.trim()): the lines the stdout handler hands to onStdout
StdoutLines(data) == SelectSeq(SplitCRLF(data, <<>>), LAMBDA line : Trim(line) # <<>>)

\* stdout buffers as the stream hands them over; a buffer may end inside a line
BufInstalledHead == <<"[", "Android", "]", " ", "Installed">>

BufInstalledTail == <<" ", "1", "0", "0", "%", "NL">>

BufInstalledWhole == LineInstalled100 \o <<"NL">>

BufDownloadingCRLF == LineDownloading10 \o <<"CR", "NL">> \o <<" ", "CR", "NL">>

BufError == LineError \o <<"NL">>

BufNoise == LineNoise \o <<"NL">>

Buffers ==
  {BufInstalledHead, BufInstalledTail, BufInstalledWhole, BufDownloadingCRLF,
   ChunkTwoInstalled, BufError, BufNoise}

\* every line the stdout handler can hand to onStdout
UpstreamLines == UNION {{StdoutLines(data)[i] : i \in DOMAIN StdoutLines(data)} : data \in Buffers}

\* chunks of a text cut at and inside lines, handed to Progress(raw) directly
\* two lines that match the error pattern and no status line
ChunkTwoErrors == LineError \o <<"NL">> \o <<"Fatal", " ", "Error:", " ", "no", " ", "space">>

SplitChunks ==
  {BufInstalledHead, BufInstalledTail, BufInstalledWhole,
   LineDownloading10 \o <<"NL">>, ChunkTwoInstalled, BufError,
   ChunkTwoErrors, ChunkErrorAndInstalled}

\* the parser's result for each chunk, computed once
Parsed ==
  [chunk \in Chunks \cup UpstreamLines \cup SplitChunks |-> parseUnityHubEvent(chunk)]

----------------------------------------------------------------------------
(* UnityHubInstallerEvent *)

VARIABLES
  moduleTracker,  \* #moduleTracker: module -> status
  listeners,      \* the EventEmitter's listener arrays, one per event type
  futures,        \* the promises returned by the reads of `completed`, in order
  log,            \* every emit(type, payload) made, in order, with its call
  trace,          \* the Progress / Cancel calls made so far, with their input
  threw,          \* the last Progress call ended in an exception
  exited,         \* the hub process has ended: no more output follows
  hub,            \* the hub command: "starting", "running", "unavailable",
                  \* "failed" or "succeeded"
  input,          \* the argument of a function called on its own
  output,         \* what the function returned
  pc              \* "idle": no call asked for, "ready": input given, "done"

vars == <<moduleTracker, listeners, futures, log, trace, threw, exited, hub, input, output, pc>>

\* the variables of a direct call of parseUnityHubEvent, combine or
\* redactSensitiveArgs
parserVars == <<input, output, pc>>

\* number of Progress / Cancel calls made so far
calls == Len(trace)

\* reject(new Error("Cancelled"))
CancelledError == [kind |-> "Error", message |-> "Cancelled", events |-> <<>>]

\* a promise value or rejection reason that is an InstallerEvent[]
EventsValue(events) == [kind |-> "InstallerEvent[]", message |-> "", events |-> events]

NoValue == [kind |-> "none", message |-> "", events |-> <<>>]

IsErrorEvent(e) == e.status = InstallerStatus_Error

IsInstalledEvent(e) == e.status = InstallerStatus_Installed

\* the emitter and its promises, threaded through one handler
State == [moduleTracker |-> moduleTracker, listeners |-> listeners,
          futures |-> futures, log |-> log, threw |-> FALSE]

\* cleanup(): this.off(...) of the three listeners of one promise (lines 40-44)
\* cleanup that removes the Completed listener only
cleanupCompletedOnly(ls, f) ==
  [t \in EventTypes |->
     IF t = InstallerEventType_Completed
     THEN SelectSeq(ls[t], LAMBDA l : ~(l.owner = "completed" /\ l.id = f))
     ELSE ls[t]]

cleanup(ls, f) ==
  [t \in EventTypes |->
     IF t \in {InstallerEventType_Completed, InstallerEventType_Error,
               InstallerEventType_Cancelled}
     THEN SelectSeq(ls[t], LAMBDA l : ~(l.owner = "completed" /\ l.id = f))
     ELSE ls[t]]

\* resolve / reject of a promise: only the first call settles it
Settle(fs, f, state, value) ==
  IF fs[f].state = "pending"
  THEN [fs EXCEPT ![f] = [@ EXCEPT !.state = state, !.value = value]]
  ELSE fs

\* Invoke with an onError that resolves the promise instead of rejecting it
InvokeErrorResolves(st, l, payload) ==
  IF l.owner = "caller" THEN st
  ELSE IF l.fn = "onComplete" \/ l.fn = "onError"
  THEN [st EXCEPT !.listeners = cleanup(st.listeners, l.id),
                  !.futures = Settle(st.futures, l.id, "fulfilled", EventsValue(payload))]
  ELSE [st EXCEPT !.listeners = cleanup(st.listeners, l.id),
                  !.futures = Settle(st.futures, l.id, "rejected", CancelledError)]

\* one listener called with the payload of an emit
Invoke(st, l, payload) ==
  IF l.owner = "caller" THEN st
  ELSE IF l.fn = "onComplete"
  THEN [st EXCEPT !.listeners = cleanup(st.listeners, l.id),
                  !.futures = Settle(st.futures, l.id, "fulfilled", EventsValue(payload))]
  ELSE IF l.fn = "onError"
  THEN [st EXCEPT !.listeners = cleanup(st.listeners, l.id),
                  !.futures = Settle(st.futures, l.id, "rejected", EventsValue(payload))]
  ELSE [st EXCEPT !.listeners = cleanup(st.listeners, l.id),
                  !.futures = Settle(st.futures, l.id, "rejected", CancelledError)]

RECURSIVE InvokeAll(_, _, _)
InvokeAll(st, ls, payload) ==
  IF ls = <<>> THEN st
  ELSE InvokeAll(Invoke(st, Head(ls), payload), Tail(ls), payload)

\* EventEmitter.emit: the listeners registered when emit starts are called in
\* registration order; an "error" event nobody listens to is thrown instead
emit(st, call, type, payload) ==
  IF type = "error" /\ st.listeners[type] = <<>>
  THEN [st EXCEPT !.threw = TRUE]
  ELSE InvokeAll([st EXCEPT !.log = Append(@, [type |-> type, payload |-> payload, call |-> call])],
                 st.listeners[type], payload)

\* #updateModuleTracker (lines 99-103)
RECURSIVE updateModuleTracker(_, _)
updateModuleTracker(tracker, events) ==
  IF events = <<>> THEN tracker
  ELSE updateModuleTracker(
         [m \in DOMAIN tracker \cup {Head(events).module} |->
            IF m = Head(events).module THEN Head(events).status ELSE tracker[m]],
         Tail(events))

\* #Error (lines 71-76)
EmitError(st, call, events) ==
  LET errorEvents == SelectSeq(events, IsErrorEvent)
  IN  IF Len(errorEvents) = 0 THEN st
      ELSE emit(st, call, InstallerEventType_Error, errorEvents)

\* #Complete that emits Completed once per instance only
CompleteOnce(st, call, events) ==
  LET installed == SelectSeq(events, IsInstalledEvent)
  IN  IF /\ Len(installed) > 0 /\ Len(installed) = Len(events)
         /\ \A i \in 1..Len(st.log) : st.log[i].type # InstallerEventType_Completed
      THEN emit(st, call, InstallerEventType_Completed, installed)
      ELSE st

\* #Complete without the comparison of the two lengths
CompleteAnyInstalled(st, call, events) ==
  LET installed == SelectSeq(events, IsInstalledEvent)
  IN  IF Len(installed) > 0
      THEN emit(st, call, InstallerEventType_Completed, installed)
      ELSE st

\* #Complete that asks the module tracker instead of the batch
CompleteWhenTrackerInstalled(st, call, events) ==
  IF \A m \in DOMAIN st.moduleTracker : st.moduleTracker[m] = InstallerStatus_Installed
  THEN emit(st, call, InstallerEventType_Completed, SelectSeq(events, IsInstalledEvent))
  ELSE st

\* #Complete (lines 78-83)
Complete(st, call, events) ==
  LET installed == SelectSeq(events, IsInstalledEvent)
  IN  IF Len(installed) > 0 /\ Len(installed) = Len(events)
      THEN emit(st, call, InstallerEventType_Completed, installed)
      ELSE st

\* Progress(raw), lines 66-68: the tracker update and #Complete
ProgressTail(s2, call, events, progressEvents) ==
  IF s2.threw THEN s2
  ELSE Complete([s2 EXCEPT !.moduleTracker = updateModuleTracker(@, events)],
                call, progressEvents)

\* Progress(raw) that updates the tracker before it looks for non-error events
ProgressBodyTracksFirst(s1, call, events, progressEvents) ==
  IF s1.threw THEN s1
  ELSE IF Len(progressEvents) = 0
  THEN [s1 EXCEPT !.moduleTracker = updateModuleTracker(@, events)]
  ELSE ProgressTail(emit(s1, call, InstallerEventType_Progress, progressEvents),
                    call, events, progressEvents)

\* Progress(raw), lines 63-66: the filter and the Progress notification
ProgressBody(s1, call, events, progressEvents) ==
  IF s1.threw \/ Len(progressEvents) = 0 THEN s1
  ELSE ProgressTail(emit(s1, call, InstallerEventType_Progress, progressEvents),
                    call, events, progressEvents)

\* Progress(raw) that emits Progress before it calls #Error
ProgressBeforeErrorTail(s1, call, events, progressEvents) ==
  IF s1.threw THEN s1
  ELSE ProgressTail(EmitError(s1, call, events), call, events, progressEvents)

ProgressBeforeError(st, call, raw) ==
  IF Len(Parsed[raw]) = 0 THEN st
  ELSE IF Len(SelectSeq(Parsed[raw], LAMBDA e : ~IsErrorEvent(e))) = 0
  THEN EmitError(st, call, Parsed[raw])
  ELSE ProgressBeforeErrorTail(
         emit(st, call, InstallerEventType_Progress,
              SelectSeq(Parsed[raw], LAMBDA e : ~IsErrorEvent(e))),
         call, Parsed[raw], SelectSeq(Parsed[raw], LAMBDA e : ~IsErrorEvent(e)))

\* Progress(raw) that calls #Error after #Complete
ProgressErrorLastTail(s3, call, events) ==
  IF s3.threw THEN s3 ELSE EmitError(s3, call, events)

ProgressErrorLast(st, call, raw) ==
  IF Len(Parsed[raw]) = 0 THEN st
  ELSE ProgressErrorLastTail(
         ProgressBody(st, call, Parsed[raw],
                      SelectSeq(Parsed[raw], LAMBDA e : ~IsErrorEvent(e))),
         call, Parsed[raw])

\* Progress(raw) that does nothing once a terminal notification was emitted
ProgressUntilTerminal(st, call, raw) ==
  IF Len(Parsed[raw]) = 0 THEN st
  ELSE IF \E i \in 1..Len(st.log) :
            st.log[i].type \in {InstallerEventType_Completed, InstallerEventType_Error,
                                InstallerEventType_Cancelled}
  THEN st
  ELSE ProgressBody(EmitError(st, call, Parsed[raw]), call, Parsed[raw],
                    SelectSeq(Parsed[raw], LAMBDA e : ~IsErrorEvent(e)))

\* Progress(raw) (lines 57-69); an exception ends the call where it is thrown
Progress(st, call, raw) ==
  IF Len(Parsed[raw]) = 0 THEN st
  ELSE ProgressBody(EmitError(st, call, Parsed[raw]), call, Parsed[raw],
                    SelectSeq(Parsed[raw], LAMBDA e : ~IsErrorEvent(e)))

\* Cancel() that does nothing on an instance that was cancelled before
CancelOnce(st, call) ==
  IF \E i \in 1..Len(st.log) : st.log[i].type = InstallerEventType_Cancelled
  THEN st
  ELSE emit([st EXCEPT !.moduleTracker = <<>>], call, InstallerEventType_Cancelled, <<>>)

\* Cancel() without the clear() of the module tracker
CancelKeepsTracker(st, call) ==
  emit(st, call, InstallerEventType_Cancelled, <<>>)

\* Cancel() (lines 89-97)
CancelOp(st, call) ==
  emit([st EXCEPT !.moduleTracker = <<>>], call, InstallerEventType_Cancelled, <<>>)

\* the three listeners a read of `completed` registers (lines 46-48)
FutureListener(f, fn) == [owner |-> "completed", id |-> f, fn |-> fn]

CallerListener(n) == [owner |-> "caller", id |-> n, fn |-> "listener"]

CallerCount == 
  Len(SelectSeq(listeners[InstallerEventType_Progress], LAMBDA l : l.owner = "caller"))
  + Len(SelectSeq(listeners[InstallerEventType_Error], LAMBDA l : l.owner = "caller"))
  + Len(SelectSeq(listeners[InstallerEventType_Completed], LAMBDA l : l.owner = "caller"))
  + Len(SelectSeq(listeners[InstallerEventType_Cancelled], LAMBDA l : l.owner = "caller"))

Init ==
  /\ moduleTracker = <<>>
  /\ listeners = [t \in EventTypes |-> <<>>]
  /\ futures = <<>>
  /\ log = <<>>
  /\ trace = <<>>
  /\ threw = FALSE
  /\ exited = FALSE
  /\ hub = "running"
  /\ input = <<>>
  /\ output = <<>>
  /\ pc = "idle"

Commit(st, op, raw) ==
  /\ moduleTracker' = st.moduleTracker
  /\ listeners' = st.listeners
  /\ futures' = st.futures
  /\ log' = st.log
  /\ threw' = st.threw
  /\ trace' = Append(trace, [op |-> op, raw |-> raw])
  /\ UNCHANGED <<exited, hub, input, output, pc>>

\* installerEmitter.Progress(data), called by the upstream onStdout
Ingest(chunk) ==
  /\ calls < MaxCalls
  /\ ~exited
  /\ Commit(Progress(State, calls + 1, chunk), "Progress", chunk)

\* installer.Cancel()
Cancel ==
  /\ calls < MaxCalls
  /\ Commit(CancelOp(State, calls + 1), "Cancel", <<>>)

\* a read of installer.completed (lines 25-50)
ReadCompleted ==
  /\ Len(futures) < MaxFutures
  /\ LET f == Len(futures) + 1
     IN  /\ futures' = Append(futures, [state |-> "pending", value |-> NoValue,
                                        readAt |-> Len(log), readCall |-> calls])
         /\ listeners' =
              [listeners EXCEPT
                 ![InstallerEventType_Completed] = Append(@, FutureListener(f, "onComplete")),
                 ![InstallerEventType_Error] = Append(@, FutureListener(f, "onError")),
                 ![InstallerEventType_Cancelled] = Append(@, FutureListener(f, "onCancel"))]
  /\ UNCHANGED <<moduleTracker, log, trace, threw, exited, hub, input, output, pc>>

\* installer.on(type, listener) by the caller
On(type) ==
  /\ CallerCount < MaxCallerListeners
  /\ listeners' = [listeners EXCEPT ![type] = Append(@, CallerListener(CallerCount + 1))]
  /\ UNCHANGED <<moduleTracker, futures, log, trace, threw, exited, hub, input, output, pc>>

\* installer.off(type, listener) by the caller
Off(type) ==
  /\ \E i \in 1..Len(listeners[type]) : listeners[type][i].owner = "caller"
  /\ listeners' = [listeners EXCEPT ![type] = SelectSeq(@, LAMBDA l : l.owner # "caller")]
  /\ UNCHANGED <<moduleTracker, futures, log, trace, threw, exited, hub, input, output, pc>>

\* installer.removeAllListeners(type) by the caller: the emitter is the
\* EventEmitter the promise's own listeners are registered on
RemoveAllListeners(type) ==
  /\ listeners[type] # <<>>
  /\ listeners' = [listeners EXCEPT ![type] = <<>>]
  /\ UNCHANGED <<moduleTracker, futures, log, trace, threw, exited, hub, input, output, pc>>

\* the operation as its driver and one caller of `completed` see it
\* onStdout(line) for each line, in order; an exception ends the handler.
\* The result is the state and the number of lines handed over.
RECURSIVE OnStdoutLines(_, _, _, _)
OnStdoutLines(st, call, lines, n) ==
  IF lines = <<>> \/ st.threw THEN <<st, n>>
  ELSE OnStdoutLines(Progress(st, call, Head(lines)), call + 1, Tail(lines), n + 1)

\* the state after the handler ran: r is OnStdoutLines' result
StdoutCommit(r, lines) ==
  /\ moduleTracker' = r[1].moduleTracker
  /\ listeners' = r[1].listeners
  /\ futures' = r[1].futures
  /\ log' = r[1].log
  /\ threw' = r[1].threw
  /\ trace' = trace \o [i \in 1..r[2] |-> [op |-> "Progress", raw |-> lines[i]]]
  /\ UNCHANGED <<exited, hub, input, output, pc>>

\* subprocess.stdout.on("data", ...) with onStdout = installerEmitter.Progress
StdoutData(data) ==
  /\ ~exited
  /\ hub = "running"
  /\ StdoutLines(data) # <<>>
  /\ calls + Len(StdoutLines(data)) <= MaxCalls
  /\ StdoutCommit(OnStdoutLines(State, calls + 1, StdoutLines(data), 0), StdoutLines(data))

\* an end of the process that rejects the promises still pending
ExitRejectsPending ==
  /\ ~exited
  /\ exited' = TRUE
  /\ futures' = [f \in 1..Len(futures) |->
                   IF futures[f].state = "pending"
                   THEN [futures[f] EXCEPT !.state = "rejected", !.value = CancelledError]
                   ELSE futures[f]]
  /\ UNCHANGED <<moduleTracker, listeners, log, trace, threw, hub, input, output, pc>>

\* the hub process ends; addModule and addEditor only log a failed result
Exit ==
  /\ ~exited
  /\ exited' = TRUE
  /\ UNCHANGED <<moduleTracker, listeners, futures, log, trace, threw, hub, input, output, pc>>

Next ==
  \/ \E chunk \in Chunks : Ingest(chunk)
  \/ Cancel
  \/ ReadCompleted

Spec == Init /\ [][Next]_vars

\* the same with a caller that registers and removes listeners of its own
\* the sequencer fed by the process runner's stdout handler
NextUpstream ==
  \/ \E data \in Buffers : StdoutData(data)
  \/ Cancel
  \/ ReadCompleted
  \/ Exit

SpecUpstream == Init /\ [][NextUpstream]_vars

\* the sequencer fed with chunks that need not end at a line end
NextChunking == \E chunk \in SplitChunks : Ingest(chunk)

SpecChunking == Init /\ [][NextChunking]_vars

\* one chunk of each outcome: progress only, Completed, Error
ListenerChunks == {LineDownloading10 \o <<"NL">>, LineInstalled100 \o <<"NL">>, LineError}

\* the operation with a caller that registers and removes listeners
\* UnityHub.addModule / addEditor have returned ok(installerEmitter); the
\* command they started waits in execUnityHubCommand for isUnityHubAvailable
InitAddModule ==
  /\ moduleTracker = <<>>
  /\ listeners = [t \in EventTypes |-> <<>>]
  /\ futures = <<>>
  /\ log = <<>>
  /\ trace = <<>>
  /\ threw = FALSE
  /\ exited = FALSE
  /\ hub = "starting"
  /\ input = <<>>
  /\ output = <<>>
  /\ pc = "idle"

\* execUnityHubCommand: the hub is not available; the err(...) it returns is
\* logged by the .then of addModule / addEditor
HubUnavailable ==
  /\ hub = "starting"
  /\ hub' = "unavailable"
  /\ exited' = TRUE
  /\ UNCHANGED <<moduleTracker, listeners, futures, log, trace, threw, input, output, pc>>

\* execUnityHubCommand: the hub is available and executeCommand starts it
HubSpawn ==
  /\ hub = "starting"
  /\ hub' = "running"
  /\ UNCHANGED <<moduleTracker, listeners, futures, log, trace, threw, exited, input, output, pc>>

\* an end of the command that tells the emitter about a failure
HubEndEmitsError(result) ==
  /\ hub = "running"
  /\ ~exited
  /\ hub' = result
  /\ exited' = TRUE
  /\ IF result = "failed"
     THEN /\ log' = emit(State, calls, InstallerEventType_Error, <<>>).log
          /\ futures' = emit(State, calls, InstallerEventType_Error, <<>>).futures
          /\ listeners' = emit(State, calls, InstallerEventType_Error, <<>>).listeners
     ELSE UNCHANGED <<log, futures, listeners>>
  /\ UNCHANGED <<moduleTracker, trace, threw, input, output, pc>>

\* the command ends: .then logs a result that is no success, .catch logs a
\* rejection ("failed" stands for both)
HubEnd(result) ==
  /\ hub = "running"
  /\ ~exited
  /\ hub' = result
  /\ exited' = TRUE
  /\ UNCHANGED <<moduleTracker, listeners, futures, log, trace, threw, input, output, pc>>

\* the outputs of a short run of the hub
AddModuleBuffers == {BufDownloadingCRLF, BufInstalledWhole, BufError}

\* the emitter in the hands of the caller of addModule / addEditor
NextAddModule ==
  \/ HubUnavailable
  \/ HubSpawn
  \/ \E data \in AddModuleBuffers : StdoutData(data)
  \/ \E result \in {"failed", "succeeded"} : HubEnd(result)
  \/ Cancel
  \/ ReadCompleted

SpecAddModule == InitAddModule /\ [][NextAddModule]_vars

NextListeners ==
  \/ \E chunk \in ListenerChunks : Ingest(chunk)
  \/ Cancel
  \/ ReadCompleted
  \/ \E type \in EventTypes : On(type)
  \/ \E type \in EventTypes : Off(type)
  \/ \E type \in EventTypes : RemoveAllListeners(type)

SpecListeners == Init /\ [][NextListeners]_vars

(* Lines and texts handed to parseUnityHubEvent *)

\* the content of the brackets, with and without blanks around the name
ModuleTexts == {<<"ModuleA">>, <<" ", "ModuleA", " ">>}

\* status texts, one of them ending in an ellipsis
StatusTexts == {<<"Downloading">>, <<"Downloading", ".", ".", ".">>, <<"Installed">>}

\* percentages as written and as numbers (parseFloat)
Percentages ==
  {[text |-> <<"4", "2">>, value |-> <<42>>],
   [text |-> <<"7", ".", "5">>, value |-> <<7, 5>>]}

\* what may follow the status or the percentage: nothing, dots, a blank
DotTails == {<<>>, <<".", ".", ".">>}

LineTails == DotTails \cup {<<" ">>}

\* [<module>] <status> <p>%, optionally followed by dots
WellFormedLine(m, s, p, d) ==
  <<"[">> \o m \o <<"]", " ">> \o s \o <<" ">> \o p.text \o <<"%">> \o d

\* [<module>] <status> without a percentage
NoPercentLine(m, s, t) == <<"[">> \o m \o <<"]", " ">> \o s \o t

WellFormedLines ==
  {WellFormedLine(m, s, p, d) :
     m \in ModuleTexts, s \in StatusTexts, p \in Percentages, d \in DotTails}

NoPercentLines ==
  {NoPercentLine(<<"ModuleA">>, s, t) :
     s \in {<<"Downloading">>, <<"Installed">>}, t \in LineTails}

\* lines that begin with Error:
ErrorLines == {LineError, LineError \o <<" ", "CR">>}

\* Error: after other text
LineErrorInside == <<"Fatal", " ", "Error:", " ", "disk", " ", "full">>

\* a percentage above 100
LineOverHundred == <<"[", "ModuleA", "]", " ", "Downloading", " ", "1", "5", "0", "%">>

\* brackets around a blank
LineBlankModule == <<"[", " ", "]", " ", "Installed">>

\* a status text that names no lifecycle stage
LineUnknownStatus == <<"[", "ModuleA", "]", " ", "Unpacking">>

\* a status line of a text with CRLF line ends, as split("\n") leaves it
LineStatusCR == LineDownloading10 \o <<"CR">>

\* a bracketed line whose text contains Error:
LineBracketedError == <<"[", "ModuleA", "]", " ", "Error:", " ", "disk", " ", "full">>

ParserLines ==
  WellFormedLines \cup NoPercentLines \cup ErrorLines \cup
  {LineErrorInside, LineNoise, <<>>, LineOverHundred, LineBlankModule,
   LineUnknownStatus, LineStatusCR, LineBracketedError}

\* the lines that may follow the first line of a text
FollowLines ==
  {LineError, LineErrorInside, LineNoise, <<>>,
   NoPercentLine(<<"ModuleA">>, <<"Installed">>, <<>>),
   WellFormedLine(<<"ModuleA">>, <<"Downloading">>, [text |-> <<"4", "2">>, value |-> <<42>>], <<>>)}

\* the texts of 1..n lines
RECURSIVE TextsOf(_)
TextsOf(n) ==
  IF n <= 1 THEN ParserLines
  ELSE TextsOf(n - 1) \cup {t \o <<"NL">> \o l : t \in TextsOf(n - 1), l \in FollowLines}

ParserTexts == TextsOf(MaxLines)

\* a caller holds a text for UnityHubEventParser.parseUnityHubEvent
InitParser ==
  /\ moduleTracker = <<>>
  /\ listeners = [t \in EventTypes |-> <<>>]
  /\ futures = <<>>
  /\ log = <<>>
  /\ trace = <<>>
  /\ threw = FALSE
  /\ exited = FALSE
  /\ hub = "running"
  /\ input \in ParserTexts
  /\ output = <<>>
  /\ pc = "ready"

\* events = UnityHubEventParser.parseUnityHubEvent(input)
Parse ==
  /\ pc = "ready"
  /\ output' = parseUnityHubEvent(input)
  /\ pc' = "done"
  /\ UNCHANGED <<moduleTracker, listeners, futures, log, trace, threw, exited, hub, input>>

NextParser == Parse

SpecParser == InitParser /\ [][NextParser]_vars

----------------------------------------------------------------------------
(* errors/Result.ts *)

ok(value) == [success |-> TRUE, value |-> value]

err(error) == [success |-> FALSE, error |-> error]

isErr(result) == result.success = FALSE

\* the for loop of combine from element i on; `read` is the number of
\* elements the loop has taken from the array when combine returns
RECURSIVE combineLoop(_, _, _)
combineLoop(results, i, values) ==
  IF i > Len(results) THEN [returned |-> ok(values), read |-> Len(results)]
  ELSE IF isErr(results[i]) THEN [returned |-> results[i], read |-> i]
  ELSE combineLoop(results, i + 1, Append(values, results[i].value))

\* a combine that goes through all results and returns the last failure
combineLastFailure(results) ==
  LET failures == SelectSeq(results, isErr)
  IN  IF failures = <<>> THEN combineLoop(results, 1, <<>>)
      ELSE [returned |-> failures[Len(failures)], read |-> Len(results)]

combine(results) == combineLoop(results, 1, <<>>)

\* the results a caller may hold
ResultValues == {ok("a"), ok("b"), err("E1"), err("E2")}

\* the arrays of at most n results
RECURSIVE ResultLists(_)
ResultLists(n) ==
  IF n = 0 THEN {<<>>}
  ELSE ResultLists(n - 1) \cup
       {Append(rs, r) : rs \in {l \in ResultLists(n - 1) : Len(l) = n - 1}, r \in ResultValues}

\* a caller holds an array of results for combine
InitCombine ==
  /\ moduleTracker = <<>>
  /\ listeners = [t \in EventTypes |-> <<>>]
  /\ futures = <<>>
  /\ log = <<>>
  /\ trace = <<>>
  /\ threw = FALSE
  /\ exited = FALSE
  /\ hub = "running"
  /\ input \in ResultLists(MaxResults)
  /\ output = <<>>
  /\ pc = "ready"

\* combine(results)
Combine ==
  /\ pc = "ready"
  /\ output' = combine(input)
  /\ pc' = "done"
  /\ UNCHANGED <<moduleTracker, listeners, futures, log, trace, threw, exited, hub, input>>

NextCombine == Combine

SpecCombine == InitCombine /\ [][NextCombine]_vars

----------------------------------------------------------------------------
(* utils/commandExecutor.ts: redactSensitiveArgs.  An argument is a sequence
   of tokens: "-", "=", and atomic runs of other characters. *)

\* the default of the parameter sensitiveKeys
SensitiveKeys == {"password", "token", "secret"}

\* String.toLowerCase on a token
Lower(t) == IF t = "Password" THEN "password" ELSE t

\* key.toLowerCase()
LowerCase(s) == [j \in 1..Len(s) |-> Lower(s[j])]

\* sensitiveKeys.includes(key.toLowerCase())
IsSensitive(key) == \E k \in SensitiveKeys : LowerCase(key) = <<k>>

\* arg.startsWith("--") || arg.startsWith("-")
StartsWithDash(arg) == arg # <<>> /\ arg[1] = "-"

\* arg.replace(/^--?/, "")
StripDashes(arg) ==
  IF Len(arg) >= 2 /\ arg[1] = "-" /\ arg[2] = "-" THEN Drop(arg, 2)
  ELSE IF StartsWithDash(arg) THEN Drop(arg, 1)
  ELSE arg

\* /^--?([^=]+)=(.+)$/ with d dashes taken by --?: the position of the "="
\* that ends group 1, 0 when there is no match
KeyValueAt(arg, d) ==
  IF /\ Len(arg) >= d /\ \A j \in 1..d : arg[j] = "-"
     /\ \E e \in (d + 2)..(Len(arg) - 1) :
          arg[e] = "=" /\ \A j \in (d + 1)..(e - 1) : arg[j] # "="
  THEN CHOOSE e \in (d + 2)..(Len(arg) - 1) :
         arg[e] = "=" /\ \A j \in (d + 1)..(e - 1) : arg[j] # "="
  ELSE 0

\* arg.match(/^--?([^=]+)=(.+)$/): group 1, or <<>> when there is no match
KeyValueKey(arg) ==
  IF KeyValueAt(arg, 2) # 0 THEN SubSeq(arg, 3, KeyValueAt(arg, 2) - 1)
  ELSE IF KeyValueAt(arg, 1) # 0 THEN SubSeq(arg, 2, KeyValueAt(arg, 1) - 1)
  ELSE <<>>

\* the for loop of redactSensitiveArgs (lines 96-115) from index i on
RECURSIVE redactLoop(_, _)
redactLoop(redacted, i) ==
  IF i > Len(redacted) THEN redacted
  ELSE IF StartsWithDash(redacted[i])
  THEN IF /\ IsSensitive(StripDashes(redacted[i]))
          /\ i + 1 <= Len(redacted)
          /\ ~StartsWithDash(redacted[i + 1])
       THEN redactLoop([redacted EXCEPT ![i + 1] = <<"[REDACTED]">>], i + 1)
       ELSE redactLoop(redacted, i + 1)
  ELSE IF KeyValueKey(redacted[i]) # <<>> /\ IsSensitive(KeyValueKey(redacted[i]))
  THEN redactLoop([redacted EXCEPT ![i] = <<"-", "-">> \o KeyValueKey(redacted[i])
                                          \o <<"=", "[REDACTED]">>], i + 1)
  ELSE redactLoop(redacted, i + 1)

\* redactSensitiveArgs(argv): the loop runs on a copy of argv
redactSensitiveArgs(argv) == redactLoop(argv, 1)

\* arguments of a command line
ArgValues ==
  {<<"-", "-", "password">>, <<"-", "Password">>, <<"-", "-", "user">>,
   <<"-", "-", "token", "=", "abc123">>, <<"hunter2">>, <<"alice">>}

\* the command lines of at most n arguments
RECURSIVE ArgLists(_)
ArgLists(n) ==
  IF n = 0 THEN {<<>>}
  ELSE ArgLists(n - 1) \cup
       {Append(as, a) : as \in {l \in ArgLists(n - 1) : Len(l) = n - 1}, a \in ArgValues}

\* a caller holds an argv for redactSensitiveArgs
InitRedact ==
  /\ moduleTracker = <<>>
  /\ listeners = [t \in EventTypes |-> <<>>]
  /\ futures = <<>>
  /\ log = <<>>
  /\ trace = <<>>
  /\ threw = FALSE
  /\ exited = FALSE
  /\ hub = "running"
  /\ input \in ArgLists(MaxArgs)
  /\ output = <<>>
  /\ pc = "ready"

\* redactSensitiveArgs(argv)
Redact ==
  /\ pc = "ready"
  /\ output' = redactSensitiveArgs(input)
  /\ pc' = "done"
  /\ UNCHANGED <<moduleTracker, listeners, futures, log, trace, threw, exited, hub, input>>

NextRedact == Redact

SpecRedact == InitRedact /\ [][NextRedact]_vars

----------------------------------------------------------------------------
(* Vocabulary of the properties *)

TerminalTypes ==
  {InstallerEventType_Completed, InstallerEventType_Error, InstallerEventType_Cancelled}

IsTerminal(n) == n.type \in TerminalTypes

\* indices of the notifications emitted by call c, and those of one type
EmittedBy(c) == {i \in 1..Len(log) : log[i].call = c}

EmittedOf(c, type) == {i \in EmittedBy(c) : log[i].type = type}

\* indices of the terminal notifications emitted after the first n notifications
TerminalsAfter(n) == {i \in (n + 1)..Len(log) : IsTerminal(log[i])}

Least(S) == CHOOSE i \in S : \A j \in S : i <= j

\* how a terminal notification is meant to settle a pending completion future
OutcomeState(n) ==
  IF n.type = InstallerEventType_Completed THEN "fulfilled" ELSE "rejected"

OutcomeValue(n) ==
  IF n.type = InstallerEventType_Cancelled
  THEN [kind |-> "Error", message |-> "Cancelled", events |-> <<>>]
  ELSE [kind |-> "InstallerEvent[]", message |-> "", events |-> n.payload]

SettledBy(f, n) ==
  futures[f].state = OutcomeState(n) /\ futures[f].value = OutcomeValue(n)

\* the batch a chunk parses to, and its two parts
BatchOf(c) == Parsed[trace[c].raw]

ErrorPart(batch) == SelectSeq(batch, LAMBDA e : e.status = InstallerStatus_Error)

StatusPart(batch) == SelectSeq(batch, LAMBDA e : e.status # InstallerStatus_Error)

AllInstalled(events) ==
  Len(events) >= 1 /\ \A i \in 1..Len(events) : events[i].status = InstallerStatus_Installed

ProgressCalls == {c \in 1..Len(trace) : trace[c].op = "Progress"}

CancelCalls == {c \in 1..Len(trace) : trace[c].op = "Cancel"}

----------------------------------------------------------------------------
(* C1: a completion future read before any terminal notification is pending
   until the first terminal notification and from then on has the outcome of
   that first one (fulfilled with the events of Completed, rejected with the
   error events of Error, rejected with Error("Cancelled") for Cancelled),
   whatever is emitted afterwards. *)
C1_FirstTerminalWins ==
  \A f \in DOMAIN futures :
    TerminalsAfter(0) \cap 1..futures[f].readAt = {} =>
      IF TerminalsAfter(0) = {}
      THEN futures[f].state = "pending"
      ELSE SettledBy(f, log[Least(TerminalsAfter(0))])

C1_Witness ==
  \E f \in DOMAIN futures :
    /\ TerminalsAfter(0) \cap 1..futures[f].readAt = {}
    /\ Cardinality(TerminalsAfter(0)) >= 2
    /\ \E i, j \in TerminalsAfter(0) : log[i].type # log[j].type
    /\ futures[f].state # "pending"

\* the notifications of one type in the whole run
AllOf(type) == {i \in 1..Len(log) : log[i].type = type}

\* future f was still pending when call c started
PendingBefore(f, c) ==
  /\ futures[f].readCall < c
  /\ \A i \in TerminalsAfter(futures[f].readAt) : log[i].call >= c

----------------------------------------------------------------------------
(* C2: there is one completion future per instance: whenever `completed` is
   read, the future obtained has the outcome of the first terminal
   notification the instance emitted, also when that notification came
   before the read, and all reads agree. *)
C2_OneFuturePerInstance ==
  \A f \in DOMAIN futures :
    /\ TerminalsAfter(0) # {} => SettledBy(f, log[Least(TerminalsAfter(0))])
    /\ \A g \in DOMAIN futures :
         futures[f].state = futures[g].state /\ futures[f].value = futures[g].value

----------------------------------------------------------------------------
(* C3 as stated: once a terminal notification was emitted, no later Progress
   call emits a further Completed or Error notification. *)
C3_NoLaterTerminalEmission ==
  \A i, j \in 1..Len(log) :
    (IsTerminal(log[i]) /\ log[j].call > log[i].call /\ log[j].call \in ProgressCalls)
      => log[j].type \notin {InstallerEventType_Completed, InstallerEventType_Error}

(* C3 as amended: termination is idempotent for the completion future only.
   A Progress call made after a terminal notification, with a batch that has
   no error events, still emits Completed exactly when all events of the batch
   are Installed, and a future that was settled before the call keeps the
   outcome of the first terminal notification that followed its read. *)
C3_OnlyFutureIdempotent ==
  \A c \in ProgressCalls :
    (\E i \in 1..Len(log) : IsTerminal(log[i]) /\ log[i].call < c) =>
      /\ ErrorPart(BatchOf(c)) = <<>> =>
           (EmittedOf(c, InstallerEventType_Completed) # {} <=> AllInstalled(BatchOf(c)))
      /\ \A f \in DOMAIN futures :
           (futures[f].readCall < c /\ ~PendingBefore(f, c))
             => SettledBy(f, log[Least(TerminalsAfter(futures[f].readAt))])

C3_Witness ==
  \E c \in ProgressCalls, f \in DOMAIN futures :
    /\ futures[f].readCall < c
    /\ ~PendingBefore(f, c)
    /\ ErrorPart(BatchOf(c)) = <<>>
    /\ \E i \in EmittedBy(c) : IsTerminal(log[i]) /\ ~SettledBy(f, log[i])

----------------------------------------------------------------------------
(* C4: the notifications of one Progress call come in the order Error,
   Progress, Completed, each kind at most once, and nothing else. *)
Rank(type) ==
  CASE type = InstallerEventType_Error -> 1
    [] type = InstallerEventType_Progress -> 2
    [] type = InstallerEventType_Completed -> 3
    [] OTHER -> 0

C4_EmissionOrder ==
  \A c \in ProgressCalls :
    /\ \A i \in EmittedBy(c) : Rank(log[i].type) >= 1
    /\ \A i, j \in EmittedBy(c) : i < j => Rank(log[i].type) < Rank(log[j].type)

C4_Witness ==
  \E c \in ProgressCalls :
    /\ EmittedOf(c, InstallerEventType_Error) # {}
    /\ EmittedOf(c, InstallerEventType_Progress) # {}
    /\ EmittedOf(c, InstallerEventType_Completed) # {}

----------------------------------------------------------------------------
(* C5: a Progress call emits Completed exactly when its batch has a non-error
   event and all its non-error events are Installed, and the payload is those
   events; a batch of two Installed and one Downloading event of three modules
   gives one Progress notification with the three events and no Completed. *)
TwoInstalledOneDownloading(events) ==
  /\ Len(events) = 3
  /\ Cardinality({events[i].module : i \in 1..3}) = 3
  /\ Cardinality({i \in 1..3 : events[i].status = InstallerStatus_Installed}) = 2
  /\ Cardinality({i \in 1..3 : events[i].status = InstallerStatus_Downloading}) = 1

C5_CompletedIffAllInstalled ==
  \A c \in ProgressCalls :
    LET rest == StatusPart(BatchOf(c))
    IN  /\ EmittedOf(c, InstallerEventType_Completed) # {} <=> AllInstalled(rest)
        /\ Cardinality(EmittedOf(c, InstallerEventType_Completed)) <= 1
        /\ \A i \in EmittedOf(c, InstallerEventType_Completed) : log[i].payload = rest
        /\ TwoInstalledOneDownloading(rest) =>
             /\ EmittedOf(c, InstallerEventType_Completed) = {}
             /\ Cardinality(EmittedOf(c, InstallerEventType_Progress)) = 1
             /\ \A i \in EmittedOf(c, InstallerEventType_Progress) : log[i].payload = rest

C5_Witness ==
  /\ \E c \in ProgressCalls : TwoInstalledOneDownloading(StatusPart(BatchOf(c)))
  /\ \E c \in ProgressCalls :
       \E i \in EmittedOf(c, InstallerEventType_Completed) : Len(log[i].payload) >= 2

----------------------------------------------------------------------------
(* C6: chunks of one status line each, all of the module Android, the last one
   "Installed 100%" and the earlier ones "Downloading p%": one Progress
   notification per call, one
   Completed in the whole run, emitted by the last call after its Progress and
   carrying the Installed event, and a future read before the first chunk is
   fulfilled with that one-event array. *)
AndroidInstalledEvent ==
  [module |-> <<"Android">>, status |-> InstallerStatus_Installed, progress |-> <<100>>]

C6_Scenario ==
  /\ Len(trace) >= 1
  /\ \A c \in 1..Len(trace) :
       /\ trace[c].op = "Progress"
       /\ IF c = Len(trace)
          THEN trace[c].raw = LineInstalled100 \o <<"NL">>
          ELSE trace[c].raw \in {LineDownloading10 \o <<"NL">>, LineDownloading90 \o <<"NL">>}

C6_EndToEnd ==
  C6_Scenario =>
    /\ \A c \in 1..Len(trace) : Cardinality(EmittedOf(c, InstallerEventType_Progress)) = 1
    /\ Cardinality(AllOf(InstallerEventType_Completed)) = 1
    /\ \A k \in AllOf(InstallerEventType_Completed) :
         /\ log[k].call = Len(trace)
         /\ log[k].payload = <<AndroidInstalledEvent>>
         /\ \A i \in EmittedOf(Len(trace), InstallerEventType_Progress) : i < k
    /\ \A f \in DOMAIN futures :
         futures[f].readCall = 0 =>
           /\ futures[f].state = "fulfilled"
           /\ futures[f].value.events = <<AndroidInstalledEvent>>

C6_Witness ==
  /\ C6_Scenario
  /\ Len(trace) = 3
  /\ trace[1].raw # trace[2].raw
  /\ \E f \in DOMAIN futures : futures[f].readCall = 0

----------------------------------------------------------------------------
(* C7: a chunk with an "Error:" line and status lines that are all Installed
   makes its Progress call emit one Error and one Completed notification, and
   a future that was pending when the call started is rejected with the error
   events (the Error comes first), not fulfilled by the Completed. *)
ErrorAndInstalled(c) ==
  c \in ProgressCalls /\ ErrorPart(BatchOf(c)) # <<>> /\ AllInstalled(StatusPart(BatchOf(c)))

C7_ErrorSettlesFirst ==
  \A c \in 1..Len(trace) :
    ErrorAndInstalled(c) =>
      /\ Cardinality(EmittedOf(c, InstallerEventType_Error)) = 1
      /\ Cardinality(EmittedOf(c, InstallerEventType_Completed)) = 1
      /\ \A f \in DOMAIN futures :
           PendingBefore(f, c) =>
             /\ futures[f].state = "rejected"
             /\ futures[f].value.kind = "InstallerEvent[]"
             /\ futures[f].value.events = ErrorPart(BatchOf(c))

C7_Witness ==
  \E c \in 1..Len(trace), f \in DOMAIN futures :
    ErrorAndInstalled(c) /\ PendingBefore(f, c) /\ c < Len(trace)

----------------------------------------------------------------------------
(* C8: n calls of Cancel emit n Cancelled notifications, each with an empty
   event list, and a future that the first of them finds pending is rejected by
   that first call and keeps that rejection through the later calls. *)
C8_CancelRepeats ==
  /\ Cardinality(AllOf(InstallerEventType_Cancelled)) = Cardinality(CancelCalls)
  /\ \A c \in CancelCalls :
       /\ Cardinality(EmittedBy(c)) = 1
       /\ \A i \in EmittedBy(c) :
            log[i].type = InstallerEventType_Cancelled /\ log[i].payload = <<>>
  /\ \A f \in DOMAIN futures :
       (CancelCalls # {} /\ PendingBefore(f, Least(CancelCalls))) =>
         /\ futures[f].state = "rejected"
         /\ futures[f].value = [kind |-> "Error", message |-> "Cancelled", events |-> <<>>]

C8_Witness ==
  /\ Cardinality(CancelCalls) >= 2
  /\ \E f \in DOMAIN futures : PendingBefore(f, Least(CancelCalls))

----------------------------------------------------------------------------
(* C9: a Cancel call rejects every pending completion future with
   Error("Cancelled"), a reason that no rejection by an Error notification has,
   leaves every settled future as it was, and leaves the module-status map
   empty. *)
CancelStep == Len(trace') = Len(trace) + 1 /\ trace'[Len(trace')].op = "Cancel"

C9_CancelRejectsPending ==
  [][CancelStep =>
       /\ DOMAIN moduleTracker' = {}
       /\ \A f \in DOMAIN futures :
            IF futures[f].state = "pending"
            THEN /\ futures'[f].state = "rejected"
                 /\ futures'[f].value.kind = "Error"
                 /\ futures'[f].value.message = "Cancelled"
                 /\ \A i \in AllOf(InstallerEventType_Error) :
                      futures'[f].value # OutcomeValue(log[i])
            ELSE futures'[f] = futures[f]]_vars

C9_Witness ==
  /\ Len(trace) >= 2
  /\ trace[Len(trace)].op = "Cancel"
  /\ \E c \in ProgressCalls : StatusPart(BatchOf(c)) # <<>>
  /\ DOMAIN moduleTracker = {}
  /\ \E f, g \in DOMAIN futures :
       /\ PendingBefore(f, Len(trace))
       /\ futures[f].value.kind = "Error"
       /\ ~PendingBefore(g, Len(trace))
       /\ futures[g].state = "rejected"
       /\ futures[g].value.kind = "InstallerEvent[]"

(* C11: Progress tolerates arbitrary chunking: when the chunks ingested so far
   make up a text of complete lines, the status events carried by the Progress
   notifications and the error events carried by the Error notifications are
   those of the lines of the text, in order, as if every line had come in a
   call of its own *)
RECURSIVE Flatten(_)
Flatten(seqs) == IF seqs = <<>> THEN <<>> ELSE Head(seqs) \o Flatten(Tail(seqs))

\* the text ingested so far
IngestedText == Flatten([c \in 1..Len(trace) |-> trace[c].raw])

\* the events carried by the notifications of one kind, in emission order
EntriesOf(type) == SelectSeq(log, LAMBDA entry : entry.type = type)

Delivered(type) ==
  Flatten([n \in 1..Len(EntriesOf(type)) |-> EntriesOf(type)[n].payload])

C11_ChunkingTolerated ==
  (/\ \A c \in 1..Len(trace) : trace[c].op = "Progress"
   /\ IngestedText # <<>>
   /\ IngestedText[Len(IngestedText)] = "NL")
  => /\ Delivered(InstallerEventType_Progress) = StatusPass(SplitLines(IngestedText, <<>>))
     /\ Delivered(InstallerEventType_Error) = ErrorPass(SplitLines(IngestedText, <<>>))

(* C12 as stated: when the Installed lines of several modules arrive one line
   per Progress call, none of those calls emits a Completed notification *)
InstalledLineCall(c) ==
  /\ trace[c].op = "Progress"
  /\ Len(BatchOf(c)) = 1
  /\ IsInstalledEvent(BatchOf(c)[1])

\* two modules reported Installed, each by a line in a call of its own
SeveralModulesOneLineEach ==
  \E c, d \in 1..Len(trace) :
    /\ InstalledLineCall(c) /\ InstalledLineCall(d)
    /\ BatchOf(c)[1].module # BatchOf(d)[1].module

C12_NoCompletedPerLine ==
  SeveralModulesOneLineEach
  => \A c \in 1..Len(trace) :
       InstalledLineCall(c) => EmittedOf(c, InstallerEventType_Completed) = {}

(* C12 as amended: no call's batch holds all the modules, and yet each of those
   calls emits one Completed notification, which carries the one Installed
   event of the call: #Complete looks at the batch of the call alone *)
C12_CompletedPerInstalledLine ==
  \A c \in 1..Len(trace) :
    InstalledLineCall(c)
    => /\ Cardinality(EmittedOf(c, InstallerEventType_Completed)) = 1
       /\ \A i \in EmittedOf(c, InstallerEventType_Completed) : log[i].payload = BatchOf(c)
       /\ SeveralModulesOneLineEach
          => \E d \in 1..Len(trace) :
               /\ InstalledLineCall(d)
               /\ \A i \in 1..Len(BatchOf(c)) : BatchOf(c)[i].module # BatchOf(d)[1].module

C12_Witness ==
  \E c, d \in 1..Len(trace) :
    /\ InstalledLineCall(c) /\ InstalledLineCall(d)
    /\ BatchOf(c)[1].module # BatchOf(d)[1].module
    /\ EmittedOf(c, InstallerEventType_Completed) # {}
    /\ EmittedOf(d, InstallerEventType_Completed) # {}

(* C13: Completed means that all modules reached a terminal state: in the state
   a Progress call leaves after it emitted Completed, every module recorded in
   the module tracker, the hub sentinel aside, has the status Installed *)
C13_CompletedMeansAllInstalled ==
  (/\ trace # <<>>
   /\ trace[Len(trace)].op = "Progress"
   /\ EmittedOf(Len(trace), InstallerEventType_Completed) # {})
  => \A m \in DOMAIN moduleTracker \ {<<"UnityHub">>} :
       moduleTracker[m] = InstallerStatus_Installed

(* C14: what the caller does with listeners of the four kinds, removing all
   listeners of a kind included, never affects a completion future: a future
   that was pending when a terminal notification was emitted is settled by it *)
C14_ListenersLeaveFutureAlone ==
  \A f \in 1..Len(futures) :
    TerminalsAfter(futures[f].readAt) # {} => futures[f].state # "pending"

(* C15: a completion future is settled only by a Completed, Error or Cancelled
   notification emitted after its read; in a run without a Cancel call in which
   no batch has an error event or is all-Installed, every future stays pending,
   and the end of the process changes nothing about it *)
\* no call so far gave rise to a terminal notification
QuietRun ==
  \A c \in 1..Len(trace) :
    /\ trace[c].op = "Progress"
    /\ ErrorPart(BatchOf(c)) = <<>>
    /\ ~AllInstalled(StatusPart(BatchOf(c)))

C15_SettledOnlyByTerminal ==
  /\ \A f \in 1..Len(futures) :
       futures[f].state # "pending" => TerminalsAfter(futures[f].readAt) # {}
  /\ QuietRun => \A f \in 1..Len(futures) : futures[f].state = "pending"

C15_Witness ==
  /\ exited
  /\ QuietRun
  /\ \E c \in 1..Len(trace) : StatusPart(BatchOf(c)) # <<>>
  /\ \E f \in 1..Len(futures) :
       futures[f].state = "pending" /\ futures[f].readCall < Len(trace)

----------------------------------------------------------------------------
(* Vocabulary of the parser's properties *)

\* the lines of the text that was parsed
InputLines == SplitLines(input, <<>>)

\* an event made by checkForErrors / by the status-line loop
HasErrorField(e) == "error" \in DOMAIN e

HasProgressField(e) == "progress" \in DOMAIN e

\* the events of one line: its Error event, its status event
LineEvents(line) == ErrorPass(<<line>>) \o StatusPass(<<line>>)

(* C16 as stated: the events come in the source order of their lines, also
   when "Error:" lines and status lines are interleaved *)
C16_SourceOrder ==
  pc = "done"
  => output = Flatten([i \in 1..Len(InputLines) |-> LineEvents(InputLines[i])])

(* C16 as amended: the events of the "Error:" lines come first, in the source
   order of their lines, and the events of the status lines follow, in the
   source order of their lines *)
C16_ErrorsThenStatusInOrder ==
  pc = "done"
  => /\ SelectSeq(output, HasErrorField) = ErrorPass(InputLines)
     /\ SelectSeq(output, HasProgressField) = StatusPass(InputLines)
     /\ \A i, j \in 1..Len(output) :
          (HasErrorField(output[i]) /\ HasProgressField(output[j])) => i < j

C16_Witness ==
  /\ pc = "done"
  /\ input = NoPercentLine(<<"ModuleA">>, <<"Installed">>, <<>>) \o <<"NL">> \o LineError
  /\ Len(output) = 2
  /\ HasErrorField(output[1])
  /\ HasProgressField(output[2])

(* C17: a text with no line of the bracketed module/status shape and no line
   that begins with "Error:" gives no events, also when "Error:" stands in a
   line after other text *)
BeginsWith(line, token) == line # <<>> /\ line[1] = token

C17_NoShapeNoEvents ==
  (/\ pc = "done"
   /\ \A i \in 1..Len(InputLines) :
        ~BeginsWith(InputLines[i], "[") /\ ~BeginsWith(InputLines[i], "Error:"))
  => output = <<>>

(* C18: a status line without a percentage gives an event with progress 0 when
   its status is Downloading and with no progress (null) otherwise, so that no
   event with the status Downloading has a null progress, also when the line
   ends in dots or in white space *)
C18_DownloadingHasProgress ==
  pc = "done"
  => /\ \A s \in {<<"Downloading">>, <<"Installed">>}, t \in LineTails :
          input = NoPercentLine(<<"ModuleA">>, s, t)
          => output = <<[module |-> <<"ModuleA">>, status |-> s,
                         progress |-> IF s = InstallerStatus_Downloading
                                      THEN <<0>> ELSE Null]>>
     /\ \A i \in 1..Len(output) :
          (HasProgressField(output[i]) /\ output[i].status = InstallerStatus_Downloading)
          => output[i].progress # Null

(* C19: a well-formed line [<module>] <status> <p>%, optionally followed by
   dots, gives exactly one event: its module is the content of the brackets
   without the blanks around it, its status is the status text without its
   trailing "...", and its progress is the number p *)
\* the event the line is to give; Head(s) is the status word, the rest its dots
WellFormedEvent(s, p) ==
  [module |-> <<"ModuleA">>, status |-> <<Head(s)>>, progress |-> p.value]

HubErrorEvent ==
  [module |-> <<"UnityHub">>, status |-> InstallerStatus_Error, error |-> LineError]

C20_ErrorLineEvent ==
  pc = "done"
  => /\ \A i \in 1..Len(InputLines) :
          BeginsWith(InputLines[i], "Error:")
          => /\ InputLines[i] \in ErrorLines
             /\ \E j \in 1..Len(output) :
                  output[j] = HubErrorEvent /\ ~HasProgressField(output[j])
     /\ input \in ErrorLines => output = <<HubErrorEvent>>
     /\ \A j \in 1..Len(output) :
          HasErrorField(output[j]) => output[j].status = InstallerStatus_Error

C20_Witness ==
  /\ pc = "done"
  /\ input = LineError \o <<" ", "CR">>
  /\ output = <<HubErrorEvent>>

(* C21: every event the parser returns has a module that is not empty and a
   status, and its progress, when it has one, is a percentage from 0 to 100,
   also for a line that shows a number above 100 before the "%" *)
\* a number <<whole, fraction digits...>> within 0..100
IsPercentage(n) == n[1] \in 0..99 \/ n = <<100>>

C21_EventWellFormed ==
  pc = "done"
  => \A j \in 1..Len(output) :
       /\ output[j].module # <<>>
       /\ output[j].status # <<>>
       /\ (HasProgressField(output[j]) /\ output[j].progress # Null)
          => IsPercentage(output[j].progress)

(* C22: the status of every event the parser returns is a member of the status
   enumeration, for every bracketed line *)
C22_StatusInEnumeration ==
  pc = "done" => \A j \in 1..Len(output) : output[j].status \in InstallerStatusValues

(* C23: the parser accepts every style of line end: a text whose lines end in
   CRLF gives the events of the same lines ended by LF, and a status line that
   is followed by a carriage return is recognised *)
\* the text with every CR that ends a line taken out
RECURSIVE WithLF(_)
WithLF(text) ==
  IF text = <<>> THEN <<>>
  ELSE IF Head(text) = "CR" /\ (Len(text) = 1 \/ text[2] = "NL") THEN WithLF(Tail(text))
  ELSE <<Head(text)>> \o WithLF(Tail(text))

C23_LineEndStyles ==
  pc = "done" => output = parseUnityHubEvent(WithLF(input))

(* C24: combine returns a success with the values of all results in their
   order when every result is a success (an empty array for no results), and
   otherwise the first failure in the order of the array, after which it reads
   no further result; the array is left as it was *)
\* the index of the first failure, 0 when there is none
FirstFailure(results) ==
  IF \A i \in 1..Len(results) : results[i].success THEN 0
  ELSE Least({i \in 1..Len(results) : ~results[i].success})

C24_Combine ==
  pc = "done"
  => IF FirstFailure(input) = 0
     THEN /\ output.returned.success
          /\ output.returned.value = [i \in 1..Len(input) |-> input[i].value]
     ELSE /\ output.returned = input[FirstFailure(input)]
          /\ output.read = FirstFailure(input)

C24_Witness ==
  /\ pc = "done"
  /\ input = <<ok("a"), err("E1"), err("E2")>>
  /\ output.returned = err("E1")
  /\ output.read = 2

(* C25: a Progress call whose batch has error events only emits one Error
   notification that carries all of them and nothing else, and leaves the
   module tracker as it was; "UnityHub" gets into the tracker only by a batch
   that has a non-error event as well *)
\* the step of a Progress call with a batch of error events only
ErrorOnlyStep ==
  /\ Len(trace') = Len(trace) + 1
  /\ trace'[Len(trace')].op = "Progress"
  /\ Parsed[trace'[Len(trace')].raw] # <<>>
  /\ StatusPart(Parsed[trace'[Len(trace')].raw]) = <<>>

C25_ErrorOnlyBatch ==
  [][/\ ErrorOnlyStep
        => /\ log' = Append(log, [type |-> InstallerEventType_Error,
                                   payload |-> Parsed[trace'[Len(trace')].raw],
                                   call |-> Len(trace')])
           /\ moduleTracker' = moduleTracker
     /\ (<<"UnityHub">> \in DOMAIN moduleTracker' /\ <<"UnityHub">> \notin DOMAIN moduleTracker)
        => /\ ErrorPart(Parsed[trace'[Len(trace')].raw]) # <<>>
           /\ StatusPart(Parsed[trace'[Len(trace')].raw]) # <<>>]_vars

C25_Witness ==
  /\ Len(trace) >= 2
  /\ trace[Len(trace)].raw = ChunkTwoErrors
  /\ DOMAIN moduleTracker = {<<"Android">>}
  /\ log[Len(log)].call = Len(trace)
  /\ log[Len(log)].type = InstallerEventType_Error
  /\ Len(log[Len(log)].payload) = 2
  /\ Cardinality(EmittedBy(Len(trace))) = 1

(* C26: the two passes of the parser scan the same lines independently: the
   number of events is the number of lines that match the error pattern plus
   the number of lines that match the status pattern, and a bracketed line
   whose text contains "Error:" gives two events, an Error event of "UnityHub"
   and a status event of the bracketed module *)
C26_IndependentPasses ==
  pc = "done"
  => /\ Len(output) =
          Cardinality({i \in 1..Len(InputLines) : ErrorPatternMatches(InputLines[i])})
          + Cardinality({i \in 1..Len(InputLines) : StatusMatches(InputLines[i]) # {}})
     /\ input = LineBracketedError
        => output = <<[module |-> <<"UnityHub">>, status |-> InstallerStatus_Error,
                       error |-> LineBracketedError],
                      [module |-> <<"ModuleA">>,
                       status |-> <<"Error:", " ", "disk", " ", "full">>,
                       progress |-> Null]>>

C26_Witness ==
  /\ pc = "done"
  /\ input = LineBracketedError
  /\ Len(output) = 2
  /\ output[1].module = <<"UnityHub">>
  /\ output[2].module = <<"ModuleA">>

(* C27: redactSensitiveArgs hides every sensitive value: the argument after
   "-key" or "--key" and the value of "--key=value" are replaced by
   "[REDACTED]" for a key that is, case aside, password, token or secret, so
   that the result does not depend on the secret; the array keeps its length
   and every other argument *)
\* "-key" or "--key" with a sensitive key
IsSensitiveFlag(arg) ==
  \E k \in {"password", "Password", "token", "secret"} :
    arg = <<"-", k>> \/ arg = <<"-", "-", k>>

\* argv[i] is the value that follows a sensitive flag
SecretAt(argv, i) ==
  i > 1 /\ IsSensitiveFlag(argv[i - 1]) /\ argv[i][1] # "-"

\* "--key=value" with a sensitive key
IsInlineSecret(arg) ==
  /\ Len(arg) = 5
  /\ arg[1] = "-" /\ arg[2] = "-" /\ arg[4] = "="
  /\ arg[3] \in {"password", "Password", "token", "secret"}

C27_SecretsRedacted ==
  pc = "done"
  => /\ Len(output) = Len(input)
     /\ \A i \in 1..Len(input) :
          IF SecretAt(input, i) THEN output[i] = <<"[REDACTED]">>
          ELSE IF IsInlineSecret(input[i])
          THEN output[i] = SubSeq(input[i], 1, 4) \o <<"[REDACTED]">>
          ELSE output[i] = input[i]

(* C28: addModule and addEditor return the emitter before the hub command has
   produced any output, and a failure of the command (no hub, or a result or
   rejection that is a failure) is only logged: it emits no notification and
   settles nothing, so that without a Cancel call a completion future of an
   operation whose hub is not available stays pending *)
C28_FailureOnlyLogged ==
  [][/\ hub' = "starting" => \A c \in 1..Len(trace') : trace'[c].op # "Progress"
     /\ (hub' # hub /\ hub' \in {"unavailable", "failed"})
        => /\ log' = log
           /\ futures' = futures
           /\ listeners' = listeners
           /\ moduleTracker' = moduleTracker
     /\ (hub' = "unavailable" /\ \A c \in 1..Len(trace') : trace'[c].op # "Cancel")
        => /\ log' = <<>>
           /\ \A f \in 1..Len(futures') : futures'[f].state = "pending"]_vars

C28_Witness ==
  /\ hub = "failed"
  /\ exited
  /\ ProgressCalls # {}
  /\ CancelCalls = {}
  /\ \E f \in 1..Len(futures) : futures[f].state = "pending" /\ futures[f].readCall = 0

(* C29: what a Progress call emits is a function of its chunk alone: whatever
   calls of Progress and Cancel came before it, and whatever the module tracker
   holds, the call emits the kinds and payloads, in the order, that the same
   chunk gives on a new instance *)
\* a new instance
FreshState ==
  [moduleTracker |-> <<>>, listeners |-> [t \in EventTypes |-> <<>>],
   futures |-> <<>>, log |-> <<>>, threw |-> FALSE]

\* kinds and payloads of a sequence of notifications
KindsAndPayloads(entries) ==
  [n \in 1..Len(entries) |-> <<entries[n].type, entries[n].payload>>]

\* what each chunk makes a new instance emit, computed once
FreshEmissions ==
  [chunk \in Chunks |-> KindsAndPayloads(Progress(FreshState, 1, chunk).log)]

\* what call c emitted
EmissionsOf(c) == KindsAndPayloads(SelectSeq(log, LAMBDA entry : entry.call = c))

C29_EmissionsFromChunkAlone ==
  \A c \in ProgressCalls : EmissionsOf(c) = FreshEmissions[trace[c].raw]

C29_Witness ==
  \E c, d \in ProgressCalls :
    /\ c < d
    /\ trace[c].raw = trace[d].raw
    /\ \E k \in CancelCalls : c < k /\ k < d
    /\ Len(EmissionsOf(d)) = 2
    /\ EmissionsOf(d)[2][1] = InstallerEventType_Completed
    /\ EmissionsOf(c) = EmissionsOf(d)

(* C30: every read of `completed` registers three listeners of its own, one
   for Completed, one for Error and one for Cancelled; the futures that are
   pending when a terminal notification is emitted all settle with that
   notification's outcome, and none of their listeners stays registered: the
   listeners registered by reads are exactly three per future read since the
   last terminal notification, and none right after a terminal notification *)
\* the listeners of a kind that reads of `completed` registered
InternalListeners(type) == SelectSeq(listeners[type], LAMBDA l : l.owner = "completed")

InternalCount ==
  Len(InternalListeners(InstallerEventType_Progress))
  + Len(InternalListeners(InstallerEventType_Completed))
  + Len(InternalListeners(InstallerEventType_Error))
  + Len(InternalListeners(InstallerEventType_Cancelled))

\* the futures no terminal notification has followed
Unsettled == {f \in 1..Len(futures) : TerminalsAfter(futures[f].readAt) = {}}

\* the futures that registered a listener fn for a kind, in registration order
Registered(type, fn) ==
  \A i \in 1..Len(InternalListeners(type)) : InternalListeners(type)[i].fn = fn

RegisteredIds(type) ==
  {InternalListeners(type)[i].id : i \in 1..Len(InternalListeners(type))}

C30_InternalListenersCleanedUp ==
  /\ \A f \in 1..Len(futures) :
       IF f \in Unsettled
       THEN futures[f].state = "pending"
       ELSE SettledBy(f, log[Least(TerminalsAfter(futures[f].readAt))])
  /\ \A f, g \in 1..Len(futures) :
       (f \notin Unsettled /\ g \notin Unsettled
          /\ Least(TerminalsAfter(futures[f].readAt)) = Least(TerminalsAfter(futures[g].readAt)))
       => /\ futures[f].state = futures[g].state
          /\ futures[f].value = futures[g].value
  /\ RegisteredIds(InstallerEventType_Completed) = Unsettled
  /\ RegisteredIds(InstallerEventType_Error) = Unsettled
  /\ RegisteredIds(InstallerEventType_Cancelled) = Unsettled
  /\ Registered(InstallerEventType_Completed, "onComplete")
  /\ Registered(InstallerEventType_Error, "onError")
  /\ Registered(InstallerEventType_Cancelled, "onCancel")
  /\ InternalCount = 3 * Cardinality(Unsettled)
  /\ (Len(log) > 0 /\ IsTerminal(log[Len(log)])
        /\ \A f \in 1..Len(futures) : futures[f].readAt < Len(log))
     => InternalCount = 0

C30_Witness ==
  /\ Len(futures) = 2
  /\ Len(log) > 0
  /\ log[Len(log)].type = InstallerEventType_Error
  /\ TerminalsAfter(futures[1].readAt) = {Len(log)}
  /\ TerminalsAfter(futures[2].readAt) = {Len(log)}
  /\ futures[1].state = "rejected"
  /\ futures[2].state = "rejected"
  /\ futures[1].value = futures[2].value
  /\ InternalCount = 0

====
